---- MODULE Spec2Model ----
(***************************************************************************)
(* The message synchronisation engine of SHLOKASPHERE: messagesReducer     *)
(* (the Ledger), the useMessages hook that drives it (initial load, the    *)
(* realtime subscription, loadMore, sendMessage, fetchAIResponse) and the  *)
(* Firestore collection the hook talks to.                                 *)
(*                                                                         *)
(* Identifiers are integers: a store document id is positive, a nonce      *)
(* made by generateId ("temp_...") is negative, a missing nonce is 0.      *)
(* A missing enrichment field of a document is the string "undef"; the     *)
(* JavaScript values null, [] and "" are "null", "empty" and "".           *)
(***************************************************************************)
EXTENDS Integers, Sequences, FiniteSets, TLC

\* ------------------------------------------------------------------ bounds
PageSize == 20
MaxSends == 2
MaxForeign == 1
MaxExtra == 1
MaxSmallHist == 1
MaxAnalyses == 1
MaxNonces == 2
MaxEnrichDocs == 1
MaxFetches == 2

\* The calls of performMessageAnalysis a session makes that pass the temp_
\* check.
MaxRuns == 2

\* ------------------------------------------------------------- the values
Null == 0
Undefined == -1000

Me == "me@example.com"
Other == "other@example.com"

TextHello == "hello"
TextBad == "say badword1"
TextUpper == "Badword1"
ReplyText == "reply"
FallbackText == "I'm sorry, I'm having trouble connecting right now."

\* The characters of the texts the model sends (a JavaScript string is a
\* sequence of characters; TLC strings are atoms).
Chars(t) ==
    CASE t = "hello"        -> <<"h","e","l","l","o">>
      [] t = "say badword1" -> <<"s","a","y"," ","b","a","d","w","o","r","d","1">>
      [] t = "Badword1"     -> <<"B","a","d","w","o","r","d","1">>
      [] t = "badword1"     -> <<"b","a","d","w","o","r","d","1">>
      [] t = "badword2"     -> <<"b","a","d","w","o","r","d","2">>
      [] OTHER              -> <<>>

\* String.prototype.includes
Includes(text, word) ==
    \E i \in 1..(Len(Chars(text)) - Len(Chars(word)) + 1) :
        SubSeq(Chars(text), i, i + Len(Chars(word)) - 1) = Chars(word)

bannedWords == {"badword1", "badword2"}

\* A gate that compares the whole text with each banned word.
moderateContentWholeText(text) == text \in bannedWords

moderateContent(text) == \E word \in bannedWords : Includes(text, word)

\* generateId: the nonce of the i-th call; Math.random never repeats here.
generateId(i) == 0 - i

\* ------------------------------------------------------------- messages
\* A store document as the hook sees it: { id: doc.id, ...doc.data(), timestamp }.
Doc(id, nonce, user, sender, text) ==
    [id |-> id, nonce |-> nonce, user |-> user, sender |-> sender, text |-> text,
     timestamp |-> id, sentiment |-> "undef", entities |-> "undef",
     translation |-> "undef"]

\* optimisticMessage of sendMessage
OptimisticMessage(nonce, text, now) ==
    [id |-> nonce, nonce |-> nonce, user |-> Me, sender |-> "user", text |-> text,
     timestamp |-> now, sentiment |-> "null", entities |-> "empty",
     translation |-> "null"]

\* The incoming object taken as it is, in place of { ...m, ...message }.
SpreadReplaces(m, message) == message

\* { ...m, ...message }: every key the incoming object has wins.
Spread(m, message) ==
    [id          |-> message.id,
     nonce       |-> IF message.nonce # 0 THEN message.nonce ELSE m.nonce,
     user        |-> message.user,
     sender      |-> message.sender,
     text        |-> message.text,
     timestamp   |-> message.timestamp,
     sentiment   |-> IF message.sentiment # "undef" THEN message.sentiment ELSE m.sentiment,
     entities    |-> IF message.entities # "undef" THEN message.entities ELSE m.entities,
     translation |-> IF message.translation # "undef" THEN message.translation
                     ELSE m.translation]

\* ------------------------------------------------------------- the Ledger
messagesInitialState ==
    [messages |-> <<>>, isTyping |-> FALSE, lastDoc |-> Null, hasMore |-> TRUE,
     isLoading |-> TRUE, isLoadingMore |-> FALSE]

\* Array.prototype.findIndex, 1-based; 0 when nothing matches.
FindIndex(msgs, id) ==
    IF \E k \in 1..Len(msgs) : msgs[k].id = id
    THEN CHOOSE k \in 1..Len(msgs) :
            /\ msgs[k].id = id
            /\ \A j \in 1..(k - 1) : msgs[j].id # id
    ELSE 0

\* Array.prototype.filter(m => m.id !== id)
FilterOut(msgs, id) == SelectSeq(msgs, LAMBDA m : m.id # id)

SetLoading(s, payload) == [s EXCEPT !.isLoading = payload]

SetLoadingMore(s, payload) == [s EXCEPT !.isLoadingMore = payload]

SetTyping(s, payload) == [s EXCEPT !.isTyping = payload]

InitialLoad(s, payload) ==
    [s EXCEPT !.messages = payload.messages, !.lastDoc = payload.lastDoc,
              !.hasMore = payload.hasMore, !.isLoading = FALSE]

\* LOAD_MORE that puts the older page after the list.
LoadMoreReduceAppends(s, payload) ==
    [s EXCEPT !.messages = s.messages \o payload.messages,
              !.lastDoc = payload.lastDoc, !.hasMore = payload.hasMore,
              !.isLoadingMore = FALSE]

LoadMoreReduce(s, payload) ==
    [s EXCEPT !.messages = payload.messages \o s.messages,
              !.lastDoc = payload.lastDoc, !.hasMore = payload.hasMore,
              !.isLoadingMore = FALSE]

\* REMOVE_OPTIMISTIC with the filter's test inverted (=== for !==).
RemoveOptimisticInverted(s, payload) ==
    [s EXCEPT !.messages = SelectSeq(s.messages, LAMBDA m : m.id = payload.nonce)]

\* REALTIME_ADDED without the test for an id that is already listed.
RealtimeAddedNoDedup(s, message) ==
    LET optimisticIndex ==
            IF message.nonce # 0 THEN FindIndex(s.messages, message.nonce) ELSE 0
    IN  IF optimisticIndex > 0
        THEN [s EXCEPT !.messages[optimisticIndex] = message]
        ELSE [s EXCEPT !.messages = Append(s.messages, message)]

\* REALTIME_ADDED that never looks for the optimistic entry: a message is
\* appended unless its id is listed.
RealtimeAddedByIdOnly(s, message) ==
    IF \E k \in 1..Len(s.messages) : s.messages[k].id = message.id
    THEN s
    ELSE [s EXCEPT !.messages = Append(s.messages, message)]

\* REALTIME_ADDED with the test for a listed id inverted: a message is
\* appended when its id is listed.
RealtimeAddedInvertedDedup(s, message) ==
    LET optimisticIndex ==
            IF message.nonce # 0 THEN FindIndex(s.messages, message.nonce) ELSE 0
    IN  IF \E k \in 1..Len(s.messages) : s.messages[k].id = message.id
        THEN [s EXCEPT !.messages = Append(s.messages, message)]
        ELSE IF optimisticIndex > 0
        THEN [s EXCEPT !.messages[optimisticIndex] = message]
        ELSE s

\* REALTIME_ADDED that takes the optimistic entry out and appends the
\* confirmed message (delete and append instead of substitution in place).
RealtimeAddedReappend(s, message) ==
    LET optimisticIndex ==
            IF message.nonce # 0 THEN FindIndex(s.messages, message.nonce) ELSE 0
    IN  IF optimisticIndex > 0
        THEN [s EXCEPT !.messages =
                Append(SelectSeq(s.messages, LAMBDA m : m.id # message.nonce), message)]
        ELSE IF \E k \in 1..Len(s.messages) : s.messages[k].id = message.id
        THEN s
        ELSE [s EXCEPT !.messages = Append(s.messages, message)]

\* An optimistic insert at the head of the list.
AddOptimisticPrepends(s, payload) == [s EXCEPT !.messages = <<payload>> \o s.messages]

AddOptimistic(s, payload) == [s EXCEPT !.messages = Append(s.messages, payload)]

RemoveOptimistic(s, payload) ==
    [s EXCEPT !.messages = FilterOut(s.messages, payload.nonce)]

RealtimeAdded(s, message) ==
    LET optimisticIndex ==
            IF message.nonce # 0 THEN FindIndex(s.messages, message.nonce) ELSE 0
    IN  IF optimisticIndex > 0
        THEN [s EXCEPT !.messages[optimisticIndex] = message]
        ELSE IF \E k \in 1..Len(s.messages) : s.messages[k].id = message.id
        THEN s
        ELSE [s EXCEPT !.messages = Append(s.messages, message)]

\* REALTIME_MODIFIED that also merges into the entry whose id is the nonce
\* of the incoming document.
RealtimeModifiedByNonce(s, message) ==
    [s EXCEPT !.messages =
        [k \in 1..Len(s.messages) |->
            IF s.messages[k].id = message.id \/ s.messages[k].id = message.nonce
            THEN Spread(s.messages[k], message)
            ELSE s.messages[k]]]

RealtimeModified(s, message) ==
    [s EXCEPT !.messages =
        [k \in 1..Len(s.messages) |->
            IF s.messages[k].id = message.id
            THEN Spread(s.messages[k], message)
            ELSE s.messages[k]]]

messagesReducer(s, action) ==
    CASE action.type = "SET_LOADING"       -> SetLoading(s, action.payload)
      [] action.type = "SET_LOADING_MORE"  -> SetLoadingMore(s, action.payload)
      [] action.type = "SET_TYPING"        -> SetTyping(s, action.payload)
      [] action.type = "INITIAL_LOAD"      -> InitialLoad(s, action.payload)
      [] action.type = "LOAD_MORE"         -> LoadMoreReduce(s, action.payload)
      [] action.type = "ADD_OPTIMISTIC"    -> AddOptimistic(s, action.payload)
      [] action.type = "REMOVE_OPTIMISTIC" -> RemoveOptimistic(s, action.payload)
      [] action.type = "REALTIME_ADDED"    -> RealtimeAdded(s, action.payload)
      [] action.type = "REALTIME_MODIFIED" -> RealtimeModified(s, action.payload)

Act(type, payload) == [type |-> type, payload |-> payload]

\* ---------------------------------------------------------------- state
VARIABLES
    state,            \* useReducer(messagesReducer, messagesInitialState)
    aiResponseCount,  \* the ref counting responder requests in flight
    store,            \* the "messages" collection, oldest first, as this client sees it
    inbox,            \* document changes the realtime listener has yet to be called with
    snap,             \* the listener has been called with its first snapshot
    load,             \* loadInitialMessages: "pending", "done" or "failed"
    more,             \* the calls of loadMore awaiting getDocs: the lastDoc of each
    sends,            \* the calls of sendMessage, by call number
    nextId,           \* the id (and server timestamp) of the next document written
    foreign,          \* documents other clients have added during the session
    toasts,           \* the toasts shown
    cfg,              \* what the session started from: history size, window, sends
    h,                \* bookkeeping of the Ledger harness (LedgerSpec)
    isMounted,        \* the flag of the effect: false once its cleanup has run
    messagesRef,      \* messagesRef.current: the messages of the last render whose effect ran
    apiCache,         \* sessionStorage, by cache key: a stored value or "absent"
    analyzingIds,     \* the Set of useMessageAnalysis
    runs,             \* the calls of performMessageAnalysis, by call number
    fetches           \* the requests sent to the analysis service, by cache key

analysisVars == <<apiCache, analyzingIds, runs, fetches>>

vars == <<state, aiResponseCount, store, inbox, snap, load, more, sends,
          nextId, foreign, toasts, cfg, h, isMounted, messagesRef, analysisVars>>

SendIds == 1..MaxSends

ForeignNonce(id) == 0 - (100 + id)

HistoryDoc(id) == Doc(id, ForeignNonce(id), Other, "user", TextHello)

\* The sessions the model starts from. Each gives the history the collection
\* holds at mount (hist), how many of its newest documents are at or after
\* sessionStartRef (win: the client's clock against the server's timestamps),
\* and how much happens during the session: calls of sendMessage, documents
\* of other clients, analyses that return.
Config(hist, win, nsends, nforeign, nanalyses) ==
    [hist |-> hist, win |-> win, sends |-> nsends, foreign |-> nforeign,
     analyses |-> nanalyses]

Configs ==
    { Config(0, 0, MaxSends, 0, 0) }
    \cup
    { Config(n, w, 1, MaxForeign, MaxAnalyses) :
        n \in 0..MaxSmallHist, w \in 0..MaxSmallHist }
    \cup
    UNION { { Config(PageSize + e, 0, 0, 0, 0), Config(PageSize + e, PageSize + e, 0, 0, 0) } :
              e \in 0..MaxExtra }

NoHarness == [on |-> FALSE]

IdleSend == [pc |-> "idle", nonce |-> 0, docRef |-> 0, aiDoc |-> 0, an |-> "none"]

RunIds == 1..MaxRuns

Kinds == {"sentiment", "entities", "translate"}

\* The cache keys: sentiment_<text>, entities_<text>, translate_<text>_<lang>
Keys == Kinds \X {TextHello}

IdleRun == [pc |-> "idle", id |-> 0, text |-> "", vals |-> [kind \in Kinds |-> "none"]]

\* The effects have run and nothing has been analysed: isMounted is true,
\* messagesRef holds the messages of the state, the cache of a new tab is
\* empty, the Set is new Set().
InitEffect ==
    /\ isMounted = TRUE
    /\ messagesRef = state.messages
    /\ apiCache = [key \in Keys |-> "absent"]
    /\ analyzingIds = {}
    /\ runs = [r \in RunIds |-> IdleRun]
    /\ fetches = [key \in Keys |-> 0]

Init ==
    /\ cfg \in {c \in Configs : c.win <= c.hist}
    /\ state = messagesInitialState
    /\ aiResponseCount = 0
    /\ store = [k \in 1..cfg.hist |-> HistoryDoc(k)]
    /\ inbox = <<>>
    /\ snap = FALSE
    /\ load = "pending"
    /\ more = <<>>
    /\ sends = [i \in SendIds |-> IdleSend]
    /\ nextId = cfg.hist + 1
    /\ foreign = 0
    /\ toasts = {}
    /\ InitEffect
    /\ h = NoHarness

\* ------------------------------------------------------------ the store
Select(docs, keep) == SelectSeq(docs, LAMBDA d : d.id \in keep)

Ids(docs) == {docs[k].id : k \in 1..Len(docs)}

\* Array.prototype.reverse
Reverse(seq) == [k \in 1..Len(seq) |-> seq[Len(seq) + 1 - k]]

\* snapshot.docs of a query orderBy("timestamp", "desc"), limit(20) over docs
\* (which are oldest first): the newest PageSize documents, newest first.
QuerySnapshot(docs) ==
    [k \in 1..(IF Len(docs) <= PageSize THEN Len(docs) ELSE PageSize) |->
        docs[Len(docs) + 1 - k]]

\* A payload that lists the documents in the order of the snapshot.
QueryPayloadUnreversed(snapshotDocs) ==
    [messages |-> snapshotDocs,
     lastDoc  |-> IF snapshotDocs = <<>> THEN Undefined
                  ELSE snapshotDocs[Len(snapshotDocs)].id,
     hasMore  |-> Len(snapshotDocs) = PageSize]

\* The payload of INITIAL_LOAD and LOAD_MORE: snapshot.docs.map(...).reverse(),
\* snapshot.docs[snapshot.docs.length - 1], snapshot.docs.length === 20.
QueryPayload(snapshotDocs) ==
    [messages |-> Reverse(snapshotDocs),
     lastDoc  |-> IF snapshotDocs = <<>> THEN Undefined
                  ELSE snapshotDocs[Len(snapshotDocs)].id,
     hasMore  |-> Len(snapshotDocs) = PageSize]

\* What getDocs sees of the collection: the server's documents up to a point
\* p, and this client's own writes.
Visible(p) == Select(store, {d \in Ids(store) : d <= p} \cup
                            {store[k].id : k \in {j \in 1..Len(store) :
                                store[j].user = Me /\ store[j].id > cfg.hist}})

\* startAfter(lastDoc) under orderBy("timestamp", "desc")
Older(lastDoc) == Select(store, {d \in Ids(store) : d < lastDoc})

DocOf(docs, id) == docs[CHOOSE k \in 1..Len(docs) : docs[k].id = id]

RemoveDoc(docs, id) == Select(docs, Ids(docs) \ {id})

DropChanges(q, id) == SelectSeq(q, LAMBDA c : c.doc.id # id)

\* A rejected write leaves the local view of the collection: a listener that
\* has not been called with the document yet never is, one that has is sent
\* a "removed" change.
Withdraw(id) ==
    IF snap /\ isMounted /\ \A k \in 1..Len(inbox) : inbox[k].doc.id # id
    THEN Append(inbox, [type |-> "removed", doc |-> DocOf(store, id)])
    ELSE DropChanges(inbox, id)

\* A change reaches the listener once it has had its first snapshot; before
\* that the first snapshot will carry the document. After unsubscribe() no
\* change reaches it.
Notify(type, doc) == IF snap /\ isMounted THEN Append(inbox, [type |-> type, doc |-> doc]) ELSE inbox

\* ------------------------------------------------- the realtime listener
\* snapshot.docChanges().forEach(...) over "added" changes
AddAll(s, docs) ==
    LET after[k \in 0..Len(docs)] ==
            IF k = 0 THEN s
            ELSE LET prev == after[k - 1]
                 IN  IF Len(prev.messages) >= 0   \* prev is computed before the step
                     THEN messagesReducer(prev, Act("REALTIME_ADDED", docs[k]))
                     ELSE prev
    IN  after[Len(docs)]

\* The first call of the onSnapshot handler: every document of the query
\* where("timestamp", ">=", sessionStart) is an "added" change.
FirstSnapshot ==
    /\ isMounted
    /\ ~snap
    /\ snap' = TRUE
    /\ state' = AddAll(state, Select(store, {d \in Ids(store) : d > cfg.hist - cfg.win}))
    /\ UNCHANGED <<aiResponseCount, store, inbox, load, more, sends, nextId,
                   foreign, toasts, cfg, h, isMounted, messagesRef, analysisVars>>

\* A later call of the handler, with one change; a "removed" change is
\* neither "added" nor "modified" and is dropped.
DeliverChange ==
    /\ isMounted
    /\ snap
    /\ inbox # <<>>
    /\ inbox' = Tail(inbox)
    /\ state' =
         CASE Head(inbox).type = "added" ->
                messagesReducer(state, Act("REALTIME_ADDED", Head(inbox).doc))
           [] Head(inbox).type = "modified" ->
                messagesReducer(state, Act("REALTIME_MODIFIED", Head(inbox).doc))
           [] OTHER -> state
    /\ UNCHANGED <<aiResponseCount, store, snap, load, more, sends, nextId,
                   foreign, toasts, cfg, h, isMounted, messagesRef, analysisVars>>

\* Another client adds a message to the collection.
ForeignAdd ==
    /\ foreign < cfg.foreign
    /\ foreign' = foreign + 1
    /\ LET doc == Doc(nextId, ForeignNonce(nextId), Other, "user", TextHello)
       IN  /\ store' = Append(store, doc)
           /\ inbox' = Notify("added", doc)
    /\ nextId' = nextId + 1
    /\ UNCHANGED <<state, aiResponseCount, snap, load, more, sends, toasts, cfg, h, isMounted, messagesRef, analysisVars>>

\* The cleanup of the effect (unmount, or a change of user): isMounted = false
\* and unsubscribe(). The callbacks loadMore and sendMessage belong to the
\* interface that is torn down with it, so no call starts afterwards; the
\* calls that are awaiting a promise go on.
Unmount ==
    /\ isMounted
    /\ isMounted' = FALSE
    /\ inbox' = <<>>
    /\ UNCHANGED <<state, aiResponseCount, store, snap, load, more, sends, nextId,
                   foreign, toasts, cfg, h, messagesRef, analysisVars>>

\* ------------------------------------------------- loadInitialMessages
\* getDocs returns: if (!isMounted) return, else INITIAL_LOAD; the finally
\* block dispatches SET_LOADING under the same flag.
InitialLoadSucceeds ==
    /\ load = "pending"
    /\ load' = "done"
    /\ \E p \in cfg.hist..(nextId - 1) :
         state' = IF ~isMounted THEN state
                  ELSE SetLoading(
                         messagesReducer(state,
                           Act("INITIAL_LOAD", QueryPayload(QuerySnapshot(Visible(p))))),
                         FALSE)
    /\ UNCHANGED <<aiResponseCount, store, inbox, snap, more, sends, nextId,
                   foreign, toasts, cfg, h, isMounted, messagesRef, analysisVars>>

\* A failed load without the finally block.
InitialLoadFailsKeepsLoading ==
    /\ load = "pending"
    /\ load' = "failed"
    /\ toasts' = toasts \cup {"Could not load chat history."}
    /\ UNCHANGED <<state, aiResponseCount, store, inbox, snap, more, sends, nextId,
                   foreign, cfg, h, isMounted, messagesRef, analysisVars>>

\* getDocs throws: the catch and finally blocks.
InitialLoadFails ==
    /\ load = "pending"
    /\ load' = "failed"
    /\ toasts' = toasts \cup {"Could not load chat history."}
    /\ state' = IF isMounted THEN messagesReducer(state, Act("SET_LOADING", FALSE))
                 ELSE state
    /\ UNCHANGED <<aiResponseCount, store, inbox, snap, more, sends, nextId,
                   foreign, cfg, h, isMounted, messagesRef, analysisVars>>

\* ------------------------------------------------------------ loadMore
\* A guard that looks at hasMore only.
CanLoadMoreIgnoresLoading(s) == s.hasMore

\* The guard of loadMore, on the state of the render the callback is from.
CanLoadMore(s) == ~(~s.hasMore \/ s.isLoadingMore)

Without(seq, r) == [k \in 1..(Len(seq) - 1) |-> IF k < r THEN seq[k] ELSE seq[k + 1]]

\* loadMore up to await getDocs(q). The callback is that of the latest
\* render (React renders after a click before it handles the next one), so
\* hasMore, isLoadingMore and lastDoc are those of state. A call that fails
\* the guard returns at once and changes nothing.
LoadMore ==
    /\ isMounted
    /\ CanLoadMore(state)
    /\ Len(more) < MaxFetches
    /\ state' = messagesReducer(state, Act("SET_LOADING_MORE", TRUE))
    /\ more' = Append(more, state.lastDoc)
    /\ UNCHANGED <<aiResponseCount, store, inbox, snap, load, sends, nextId,
                   foreign, toasts, cfg, h, isMounted, messagesRef, analysisVars>>

\* getDocs returns; startAfter(undefined) throws instead.
LoadMoreSucceeds ==
    \E r \in 1..Len(more) :
        /\ more[r] # Undefined
        /\ more' = Without(more, r)
        /\ state' = messagesReducer(state,
                        Act("LOAD_MORE", QueryPayload(QuerySnapshot(Older(more[r])))))
        /\ UNCHANGED <<aiResponseCount, store, inbox, snap, load, sends, nextId,
                       foreign, toasts, cfg, h, isMounted, messagesRef, analysisVars>>

\* getDocs (or startAfter) throws: the catch block.
LoadMoreFails ==
    \E r \in 1..Len(more) :
        /\ more' = Without(more, r)
        /\ toasts' = toasts \cup {"Could not load older messages."}
        /\ UNCHANGED <<state, aiResponseCount, store, inbox, snap, load, sends, nextId,
                       foreign, cfg, h, isMounted, messagesRef, analysisVars>>

\* --------------------------------------------------------- sendMessage
Texts == {TextHello, TextBad, TextUpper}

Started(i) == sends[i].pc # "idle"

\* The typing flag as a plain boolean, cleared whenever a request ends.
AfterDecrementBoolean(s, n) == messagesReducer(s, Act("SET_TYPING", FALSE))

\* The typing flag after aiResponseCount.current-- left n requests in flight.
AfterDecrement(s, n) == IF n = 0 THEN messagesReducer(s, Act("SET_TYPING", FALSE)) ELSE s

\* sendMessage up to its first await: the moderation gate, the optimistic
\* insert, the counter, the typing flag and the addDoc call, whose document
\* is in the local view of the collection at once.
SendMessage(i, messageText) ==
    /\ isMounted
    /\ sends[i].pc = "idle"
    /\ \A j \in 1..(i - 1) : Started(j)
    /\ i <= cfg.sends
    /\ IF moderateContent(messageText)
       THEN /\ toasts' = toasts \cup {"Inappropriate content detected."}
            /\ UNCHANGED <<state, aiResponseCount, store, inbox, sends, nextId>>
       ELSE LET nonce == generateId(i)
                optimisticMessage == OptimisticMessage(nonce, messageText, nextId)
                messageForDb == Doc(nextId, nonce, Me, "user", messageText)
            IN  /\ state' = messagesReducer(
                                messagesReducer(state, Act("ADD_OPTIMISTIC", optimisticMessage)),
                                Act("SET_TYPING", TRUE))
                /\ aiResponseCount' = aiResponseCount + 1
                /\ store' = Append(store, messageForDb)
                /\ inbox' = Notify("added", messageForDb)
                /\ nextId' = nextId + 1
                /\ sends' = [sends EXCEPT ![i] =
                                [pc |-> "appending", nonce |-> nonce, docRef |-> nextId,
                                 aiDoc |-> 0, an |-> "none"]]
                /\ UNCHANGED toasts
    /\ UNCHANGED <<snap, load, more, foreign, cfg, h, isMounted, messagesRef, analysisVars>>

\* await sendMessageToFirestore(messageForDb) returns: the analysis and
\* fetchAIResponse are started.
AppendSucceeds(i) ==
    /\ sends[i].pc = "appending"
    /\ sends' = [sends EXCEPT ![i].pc = "responding", ![i].an = "running"]
    /\ UNCHANGED <<state, aiResponseCount, store, inbox, snap, load, more, nextId,
                   foreign, toasts, cfg, h, isMounted, messagesRef, analysisVars>>

\* await sendMessageToFirestore(messageForDb) throws: the catch block.
AppendFails(i) ==
    /\ sends[i].pc = "appending"
    /\ sends' = [sends EXCEPT ![i].pc = "failed"]
    /\ toasts' = toasts \cup {"Could not send message."}
    /\ aiResponseCount' = aiResponseCount - 1
    /\ state' = AfterDecrement(
                    messagesReducer(state,
                        Act("REMOVE_OPTIMISTIC", [nonce |-> sends[i].nonce])),
                    aiResponseCount - 1)
    /\ store' = RemoveDoc(store, sends[i].docRef)
    /\ inbox' = Withdraw(sends[i].docRef)
    /\ UNCHANGED <<snap, load, more, nextId, foreign, cfg, h, isMounted, messagesRef, analysisVars>>

\* getAIResponse: the text fetchAIResponse gets for each outcome of the
\* request. A failed request is caught inside and answered with a fixed text;
\* a response without a text field gives undefined.
getAIResponse(outcome) ==
    CASE outcome = "ok"     -> ReplyText
      [] outcome = "error"  -> FallbackText
      [] outcome = "notext" -> "undefined"

\* A finally block that counts down and never clears the typing flag.
FinallyKeepsTyping(i) ==
    /\ aiResponseCount' = aiResponseCount - 1
    /\ state' = state

\* A finally block that forgets the counter and looks at it all the same.
FinallyKeepsCount(i) ==
    /\ aiResponseCount' = aiResponseCount
    /\ state' = AfterDecrement(state, aiResponseCount)

\* The finally block of fetchAIResponse.
Finally(i) ==
    /\ aiResponseCount' = aiResponseCount - 1
    /\ state' = AfterDecrement(state, aiResponseCount - 1)

\* fetchAIResponse from the return of getAIResponse to its next await: the
\* reply is written to the store; responseText.split throws on undefined.
ResponderReturns(i, outcome) ==
    /\ sends[i].pc = "responding"
    /\ LET responseText == getAIResponse(outcome)
       IN  IF responseText = "undefined"
           THEN /\ toasts' = toasts \cup {"The AI failed to respond. Please try again."}
                /\ Finally(i)
                /\ sends' = [sends EXCEPT ![i].pc = "done"]
                /\ UNCHANGED <<store, inbox, nextId>>
           ELSE LET aiMessage == Doc(nextId, 0, Me, "ai", responseText)
                IN  /\ store' = Append(store, aiMessage)
                    /\ inbox' = Notify("added", aiMessage)
                    /\ nextId' = nextId + 1
                    /\ sends' = [sends EXCEPT ![i].pc = "replying", ![i].aiDoc = nextId]
                    /\ UNCHANGED <<state, aiResponseCount, toasts>>
    /\ UNCHANGED <<snap, load, more, foreign, cfg, h, isMounted, messagesRef, analysisVars>>

\* await sendMessageToFirestore(aiMessage) returns.
ReplySucceeds(i) ==
    /\ sends[i].pc = "replying"
    /\ Finally(i)
    /\ sends' = [sends EXCEPT ![i].pc = "done"]
    /\ UNCHANGED <<store, inbox, snap, load, more, nextId, foreign, toasts, cfg, h, isMounted, messagesRef, analysisVars>>

\* await sendMessageToFirestore(aiMessage) throws.
ReplyFails(i) ==
    /\ sends[i].pc = "replying"
    /\ toasts' = toasts \cup {"The AI failed to respond. Please try again."}
    /\ Finally(i)
    /\ sends' = [sends EXCEPT ![i].pc = "done"]
    /\ store' = RemoveDoc(store, sends[i].aiDoc)
    /\ inbox' = Withdraw(sends[i].aiDoc)
    /\ UNCHANGED <<snap, load, more, nextId, foreign, cfg, h, isMounted, messagesRef, analysisVars>>

\* useEffect(() => { messagesRef.current = messages }, [messages]): the effect
\* of a render, which runs some time after the dispatch that caused it.
CommitEffect ==
    /\ isMounted
    /\ messagesRef # state.messages
    /\ messagesRef' = state.messages
    /\ UNCHANGED <<state, aiResponseCount, store, inbox, snap, load, more, sends, nextId,
                   foreign, toasts, cfg, h, isMounted, analysisVars>>

\* const currentHistory = [...messagesRef.current, optimisticMessage], built
\* when fetchAIResponse is called: the history getAIResponse is given.
CurrentHistory(i) ==
    Append(messagesRef,
           OptimisticMessage(sends[i].nonce, DocOf(store, sends[i].docRef).text,
                             sends[i].docRef))

\* ------------------------------------- analyzeAndSaveMessageFeatures
\* The fields updateDoc is given: a falsy result (null, "") is left out, an
\* array is never falsy.
AnalysisFields(sentiment, entities, translation) ==
    [sentiment   |-> IF sentiment = "null" THEN "undef" ELSE sentiment,
     entities    |-> entities,
     translation |-> IF translation = "" THEN "undef" ELSE translation]

\* updateDoc(docRef, fields) on the collection.
UpdateDoc(docs, id, fields) ==
    [k \in 1..Len(docs) |->
        IF docs[k].id = id
        THEN [docs[k] EXCEPT
                !.sentiment = IF fields.sentiment # "undef" THEN fields.sentiment ELSE @,
                !.entities = IF fields.entities # "undef" THEN fields.entities ELSE @,
                !.translation = IF fields.translation # "undef" THEN fields.translation ELSE @]
        ELSE docs[k]]

\* The analysis of a sent message, from the three results to the updateDoc
\* call, which is written (written = TRUE) or throws.
AnalysisCompletes(i, sentiment, entities, translation, written) ==
    /\ sends[i].an = "running"
    /\ Cardinality({j \in SendIds : sends[j].an = "done"}) < cfg.analyses
    /\ sends' = [sends EXCEPT ![i].an = "done"]
    /\ IF written
       THEN /\ store' = UpdateDoc(store, sends[i].docRef,
                                  AnalysisFields(sentiment, entities, translation))
            /\ inbox' = Notify("modified", DocOf(store', sends[i].docRef))
       ELSE UNCHANGED <<store, inbox>>
    /\ UNCHANGED <<state, aiResponseCount, snap, load, more, nextId, foreign,
                   toasts, cfg, h, isMounted, messagesRef, analysisVars>>

\* ------------------------------------------------------------ apiCache
\* if (cached) return cached: null, "" and nothing stored are falsy, an array is
\* never falsy.
Truthy(v) == v \notin {"absent", "null", ""}

\* A cache that is never read.
CacheGetMisses(key, readable) == "absent"

\* apiCache.get(key): the stored value, or null when nothing is stored or
\* sessionStorage throws (readable = FALSE).
CacheGet(key, readable) == IF readable THEN apiCache[key] ELSE "absent"

\* apiCache.set(key, value): stored, unless sessionStorage throws (persists =
\* FALSE), which is logged and nothing more.
CacheSet(cache, key, value, persists) ==
    IF persists THEN [cache EXCEPT ![key] = value] ELSE cache

\* ------------------------- analyzeSentiment, analyzeEntities, translateText
\* What the service answers with.
Success(kind) ==
    CASE kind = "sentiment" -> "S"
      [] kind = "entities"  -> "E"
      [] kind = "translate" -> "T"

\* What the catch block returns: null, [] and "".
Failure(kind) ==
    CASE kind = "sentiment" -> "null"
      [] kind = "entities"  -> "empty"
      [] kind = "translate" -> ""

\* A call whose apiCache.set throws into its own catch block.
AnalyzeReturnsUnlessPutThrows(kind, ok, persists) ==
    IF ok /\ persists THEN Success(kind) ELSE Failure(kind)

\* What a call that went to the service returns: the answer (ok), whether or
\* not apiCache.set stored it, or the value of the catch block.
AnalyzeReturns(kind, ok, persists) == IF ok THEN Success(kind) ELSE Failure(kind)

\* ------------------------------------------------- useMessageAnalysis
\* A check that lets every id through.
StartsWithTempNever(messageId) == FALSE

\* messageId.startsWith('temp_'): the ids generateId makes.
StartsWithTemp(messageId) == messageId < 0

\* performMessageAnalysis(messageId, text) up to the first await: the temp_
\* check, setAnalyzingIds, and the three calls of Promise.all, each of which
\* reads the cache and returns what it finds or sends its request.
PerformMessageAnalysis(r, messageId, text, readable) ==
    IF StartsWithTemp(messageId)
    THEN /\ toasts' = toasts \cup {"Please wait for the message to be saved before analyzing."}
         /\ UNCHANGED <<apiCache, analyzingIds, runs, fetches>>
    ELSE /\ analyzingIds' = analyzingIds \cup {messageId}
         /\ runs' = [runs EXCEPT ![r] =
                        [pc |-> "calls", id |-> messageId, text |-> text,
                         vals |-> [kind \in Kinds |->
                                     LET cached == CacheGet(<<kind, text>>, readable)
                                     IN  IF Truthy(cached) THEN cached ELSE "pending"]]]
         /\ fetches' = [key \in Keys |->
                          IF key[2] = text /\ ~Truthy(CacheGet(key, readable))
                          THEN fetches[key] + 1 ELSE fetches[key]]
         /\ UNCHANGED <<apiCache, toasts>>

\* isAnalyzed of MessageItem
IsAnalyzed(message) ==
    /\ message.sentiment \notin {"undef", "null"}
    /\ message.entities \notin {"undef", "empty"}

\* isAnalyzing of MessageItem
IsAnalyzing(message) == message.id \in analyzingIds

\* The guard of handleAnalyze
CanAnalyze(message) ==
    message.sender = "user" /\ ~IsAnalyzed(message) /\ ~IsAnalyzing(message)

\* MessageItem.handleAnalyze on entry j of the list; r is the number of the
\* call of performMessageAnalysis if it passes the temp_ check. The item is
\* that of the latest render.
HandleAnalyze(r, j, readable) ==
    /\ isMounted
    /\ runs[r].pc = "idle"
    /\ \A q \in 1..(r - 1) : runs[q].pc # "idle"
    /\ j \in 1..Len(state.messages)
    /\ CanAnalyze(state.messages[j])
    /\ PerformMessageAnalysis(r, state.messages[j].id, state.messages[j].text, readable)
    /\ UNCHANGED <<state, aiResponseCount, store, inbox, snap, load, more, sends, nextId,
                   foreign, cfg, h, isMounted, messagesRef>>

\* The service answers one of the requests of call r, or the request fails.
CallReturns(r, kind, ok, persists) ==
    /\ runs[r].pc = "calls"
    /\ runs[r].vals[kind] = "pending"
    /\ runs' = [runs EXCEPT ![r].vals[kind] = AnalyzeReturns(kind, ok, persists)]
    /\ apiCache' = IF ok THEN CacheSet(apiCache, <<kind, runs[r].text>>, Success(kind), persists)
                    ELSE apiCache
    /\ UNCHANGED <<state, aiResponseCount, store, inbox, snap, load, more, sends, nextId,
                   foreign, toasts, cfg, h, isMounted, messagesRef,
                   analyzingIds, fetches>>

\* The finally block that forgets to clear the Set.
FinallyKeepsAnalyzing(ids, messageId) == ids

\* The finally block of performMessageAnalysis
FinallyAnalysis(ids, messageId) == ids \ {messageId}

\* Promise.all has the three results: updateDoc is written (written = TRUE)
\* or throws, analyzeAndSaveMessageFeatures returns true or false, and
\* performMessageAnalysis shows the toast and clears the id.
SaveFeatures(r, written) ==
    /\ runs[r].pc = "calls"
    /\ \A kind \in Kinds : runs[r].vals[kind] # "pending"
    /\ written => runs[r].id \in Ids(store)
    /\ IF written
       THEN /\ store' = UpdateDoc(store, runs[r].id,
                                  AnalysisFields(runs[r].vals["sentiment"],
                                                 runs[r].vals["entities"],
                                                 runs[r].vals["translate"]))
            /\ inbox' = Notify("modified", DocOf(store', runs[r].id))
            /\ toasts' = toasts \cup {"Analysis complete!"}
       ELSE /\ toasts' = toasts \cup {"Analysis failed."}
            /\ UNCHANGED <<store, inbox>>
    /\ runs' = [runs EXCEPT ![r] = [IdleRun EXCEPT !.pc = "done", !.id = runs[r].id]]
    /\ analyzingIds' = FinallyAnalysis(analyzingIds, runs[r].id)
    /\ UNCHANGED <<state, aiResponseCount, snap, load, more, sends, nextId, foreign,
                   cfg, h, isMounted, messagesRef, apiCache, fetches>>

\* ------------------------------------------------------ specification
Next ==
    \/ Unmount
    \/ FirstSnapshot
    \/ DeliverChange
    \/ ForeignAdd
    \/ InitialLoadSucceeds
    \/ InitialLoadFails
    \/ LoadMore
    \/ LoadMoreSucceeds
    \/ LoadMoreFails
    \/ \E i \in SendIds, t \in Texts : SendMessage(i, t)
    \/ \E i \in SendIds : AppendSucceeds(i)
    \/ \E i \in SendIds : AppendFails(i)
    \/ \E i \in SendIds, o \in {"ok", "error", "notext"} : ResponderReturns(i, o)
    \/ \E i \in SendIds : ReplySucceeds(i)
    \/ \E i \in SendIds : ReplyFails(i)
    \/ \E i \in SendIds, s \in {"null", "S"}, e \in {"empty", "E"}, t \in {"", "T"},
          w \in BOOLEAN : AnalysisCompletes(i, s, e, t, w)

Spec == Init /\ [][Next]_vars

\* The hook in sessions that end early: the cleanup of the effect runs while
\* an initial load, an older-page fetch, a store append or a responder call
\* may be awaiting its promise.
TeardownConfigs ==
    { Config(0, 0, 1, 0, 0) } \cup { Config(PageSize + e, 0, 0, 0, 0) : e \in 0..MaxExtra }

InitTeardown ==
    /\ cfg \in TeardownConfigs
    /\ state = messagesInitialState
    /\ aiResponseCount = 0
    /\ store = [k \in 1..cfg.hist |-> HistoryDoc(k)]
    /\ inbox = <<>>
    /\ snap = FALSE
    /\ load = "pending"
    /\ more = <<>>
    /\ sends = [i \in SendIds |-> IdleSend]
    /\ nextId = cfg.hist + 1
    /\ foreign = 0
    /\ toasts = {}
    /\ InitEffect
    /\ h = NoHarness

NextTeardown ==
    \/ Unmount
    \/ FirstSnapshot
    \/ DeliverChange
    \/ InitialLoadSucceeds
    \/ InitialLoadFails
    \/ LoadMore
    \/ LoadMoreSucceeds
    \/ LoadMoreFails
    \/ \E i \in SendIds : SendMessage(i, TextHello)
    \/ \E i \in SendIds : AppendSucceeds(i)
    \/ \E i \in SendIds : AppendFails(i)
    \/ \E i \in SendIds, o \in {"ok", "error"} : ResponderReturns(i, o)
    \/ \E i \in SendIds : ReplySucceeds(i)
    \/ \E i \in SendIds : ReplyFails(i)

TeardownSpec == InitTeardown /\ [][NextTeardown]_vars

\* The hook in a session that has loaded an empty history and had its first
\* snapshot, with nothing but sends going on: no other client writes and no
\* analysis returns.
InitSend ==
    /\ cfg = Config(0, 0, MaxSends, 0, 0)
    /\ state = [messagesInitialState EXCEPT !.isLoading = FALSE, !.hasMore = FALSE,
                                            !.lastDoc = Undefined]
    /\ aiResponseCount = 0
    /\ store = <<>>
    /\ inbox = <<>>
    /\ snap = TRUE
    /\ load = "done"
    /\ more = <<>>
    /\ sends = [i \in SendIds |-> IdleSend]
    /\ nextId = 1
    /\ foreign = 0
    /\ toasts = {}
    /\ InitEffect
    /\ h = NoHarness

NextSend ==
    \/ DeliverChange
    \/ \E i \in SendIds : SendMessage(i, TextHello)
    \/ \E i \in SendIds : AppendSucceeds(i)
    \/ \E i \in SendIds : AppendFails(i)
    \/ \E i \in SendIds, o \in {"ok", "error", "notext"} : ResponderReturns(i, o)
    \/ \E i \in SendIds : ReplySucceeds(i)
    \/ \E i \in SendIds : ReplyFails(i)

SendSpec == InitSend /\ [][NextSend]_vars

\* The chat with a message analysed by hand: a session that has loaded an
\* empty history and had its first snapshot, one send that the store accepts,
\* the listener, and the clicks on the message that start an analysis.
InitAnalysis ==
    /\ cfg = Config(0, 0, 1, 0, 0)
    /\ state = [messagesInitialState EXCEPT !.isLoading = FALSE, !.hasMore = FALSE,
                                            !.lastDoc = Undefined]
    /\ aiResponseCount = 0
    /\ store = <<>>
    /\ inbox = <<>>
    /\ snap = TRUE
    /\ load = "done"
    /\ more = <<>>
    /\ sends = [i \in SendIds |-> IdleSend]
    /\ nextId = cfg.hist + 1
    /\ foreign = 0
    /\ toasts = {}
    /\ InitEffect
    /\ h = NoHarness

NextAnalysis ==
    \/ DeliverChange
    \/ \E i \in SendIds : SendMessage(i, TextHello)
    \/ \E i \in SendIds : AppendSucceeds(i)
    \/ \E r \in RunIds, j \in 1..cfg.sends, readable \in BOOLEAN : HandleAnalyze(r, j, readable)
    \/ \E r \in RunIds, kind \in Kinds, ok \in BOOLEAN, persists \in BOOLEAN :
          CallReturns(r, kind, ok, persists)
    \/ \E r \in RunIds, written \in BOOLEAN : SaveFeatures(r, written)

AnalysisSpec == InitAnalysis /\ [][NextAnalysis]_vars

\* ------------------------------------------------- the Ledger on its own
\* messagesReducer driven event by event, as the transition function of a
\* Ledger fed by a store that may deliver a document any number of times and
\* in any order. Document k <= MaxNonces is the stored form of the message
\* sent with nonce -k; the document above them is a reply, which carries no
\* nonce.
\* h remembers which nonces were issued and rolled back, which documents
\* were pushed once and more than once, and, while an optimistic insert or its
\* immediate rollback is the last event, the list the insert was applied to;
\* while the last event is a modification of a document that was not listed,
\* the id of that document.
HNonces == {generateId(k) : k \in 1..MaxNonces}

HDocIds == 1..(MaxNonces + 1)

HDoc(k) ==
    IF k <= MaxNonces THEN Doc(k, generateId(k), Me, "user", TextHello)
    ELSE Doc(k, 0, Me, "ai", ReplyText)

HPartials ==
    { [sentiment |-> "S", entities |-> "undef", translation |-> "undef"] }

NoPre == [nonce |-> 0, messages |-> <<>>, rolled |-> FALSE, missed |-> 0]

InitLedger ==
    /\ state = messagesInitialState
    /\ h = [on |-> TRUE, issued |-> {}, failed |-> {}, added |-> {}, twice |-> {},
            pre |-> NoPre]
    /\ cfg = Config(0, 0, 0, 0, 0)
    /\ aiResponseCount = 0
    /\ store = <<>>
    /\ inbox = <<>>
    /\ snap = TRUE
    /\ load = "done"
    /\ more = <<>>
    /\ sends = [i \in SendIds |-> IdleSend]
    /\ nextId = 1
    /\ foreign = 0
    /\ toasts = {}
    /\ InitEffect

\* dispatch(action), remembered.
Dispatch(action) ==
    /\ state' = messagesReducer(state, action)
    /\ UNCHANGED <<aiResponseCount, store, inbox, snap, load, more, sends, nextId,
                   foreign, toasts, cfg, isMounted, messagesRef, analysisVars>>

Remember(action, hh) ==
    [hh EXCEPT !.pre =
        CASE action.type = "ADD_OPTIMISTIC" ->
                [nonce |-> action.payload.nonce, messages |-> state.messages,
                 rolled |-> FALSE, missed |-> 0]
          [] action.type = "REMOVE_OPTIMISTIC" /\ action.payload.nonce = h.pre.nonce
                         /\ ~h.pre.rolled ->
                [h.pre EXCEPT !.rolled = TRUE]
          [] action.type = "REALTIME_MODIFIED"
                /\ \A k \in 1..Len(state.messages) :
                        state.messages[k].id # action.payload.id ->
                [NoPre EXCEPT !.missed = action.payload.id]
          [] OTHER -> NoPre]

\* OptimisticSendIssued with a nonce not used before. The hook dispatches it
\* before it calls addDoc, so before the store can push the document.
HAddOptimistic(n) ==
    /\ n \notin h.issued
    /\ (0 - n) \notin h.added
    /\ LET action == Act("ADD_OPTIMISTIC", OptimisticMessage(n, TextHello, 0 - n))
       IN  /\ Dispatch(action)
           /\ h' = Remember(action, [h EXCEPT !.issued = @ \cup {n}])

\* SendFailed, once for a send that was issued.
HRemoveOptimistic(n) ==
    /\ n \in h.issued \ h.failed
    /\ LET action == Act("REMOVE_OPTIMISTIC", [nonce |-> n])
       IN  /\ Dispatch(action)
           /\ h' = Remember(action, [h EXCEPT !.failed = @ \cup {n}])

\* StoreAddedPushed, for the first time or again, of a reply or of the
\* document of a send that was issued.
HRealtimeAdded(k) ==
    /\ HDoc(k).nonce # 0 => HDoc(k).nonce \in h.issued
    /\ LET action == Act("REALTIME_ADDED", HDoc(k))
       IN  /\ Dispatch(action)
           /\ h' = Remember(action,
                     [h EXCEPT !.added = @ \cup {k},
                               !.twice = IF k \in h.added THEN @ \cup {k} ELSE @])

\* changedDoc of a "modified" change: document k with the enrichment fields
\* it has by then.
ModifiedDoc(k, partial) ==
    [HDoc(k) EXCEPT !.sentiment = partial.sentiment,
                    !.entities = partial.entities,
                    !.translation = partial.translation]

\* StoreModifiedPushed carrying one enrichment field.
HRealtimeModified(k, partial) ==
    /\ HDoc(k).nonce # 0 => HDoc(k).nonce \in h.issued
    /\ LET action == Act("REALTIME_MODIFIED", ModifiedDoc(k, partial))
       IN  /\ Dispatch(action)
           /\ h' = Remember(action, h)

NextLedger ==
    \/ \E n \in HNonces : HAddOptimistic(n)
    \/ \E n \in HNonces : HRemoveOptimistic(n)
    \/ \E k \in HDocIds : HRealtimeAdded(k)
    \/ \E k \in HDocIds, partial \in HPartials : HRealtimeModified(k, partial)

LedgerSpec == InitLedger /\ [][NextLedger]_vars

\* The same Ledger when the store's push of a sent document may also race
\* ahead of the optimistic insert of its send.
HEarlyAdded(k) ==
    /\ HDoc(k).nonce # 0
    /\ HDoc(k).nonce \notin h.issued
    /\ LET action == Act("REALTIME_ADDED", HDoc(k))
       IN  /\ Dispatch(action)
           /\ h' = Remember(action,
                     [h EXCEPT !.added = @ \cup {k},
                               !.twice = IF k \in h.added THEN @ \cup {k} ELSE @])

HLateOptimistic(n) ==
    /\ n \notin h.issued
    /\ (0 - n) \in h.added
    /\ LET action == Act("ADD_OPTIMISTIC", OptimisticMessage(n, TextHello, 0 - n))
       IN  /\ Dispatch(action)
           /\ h' = Remember(action, [h EXCEPT !.issued = @ \cup {n}])

NextRace ==
    \/ NextLedger
    \/ \E k \in HDocIds : HEarlyAdded(k)
    \/ \E n \in HNonces : HLateOptimistic(n)

RaceSpec == InitLedger /\ [][NextRace]_vars

\* The Ledger under enrichment: one send, its stored document and a reply,
\* and modifications that carry one enrichment field each, set for the first
\* time ("S", "E", "T") or null.
EDocIds == (1..MaxEnrichDocs) \cup {MaxNonces + 1}

Absent == [sentiment |-> "undef", entities |-> "undef", translation |-> "undef"]

EPartials ==
    { [Absent EXCEPT !.sentiment = v] : v \in {"S", "null"} }
    \cup { [Absent EXCEPT !.entities = "E"], [Absent EXCEPT !.translation = "T"] }

NextEnrich ==
    \/ \E n \in {generateId(k) : k \in 1..MaxEnrichDocs} : HAddOptimistic(n)
    \/ \E k \in EDocIds : HRealtimeAdded(k)
    \/ \E k \in EDocIds, partial \in EPartials : HRealtimeModified(k, partial)

EnrichSpec == InitLedger /\ [][NextEnrich]_vars

\* The hook over histories around one and two pages, with other clients
\* writing and no sends: the initial load, the listener and loadMore.
PageHists ==
    (0..MaxSmallHist)
    \cup {PageSize - 1 + e : e \in 0..(MaxExtra + 1)}
    \cup {2 * PageSize + e : e \in 0..MaxExtra}

PageConfigs == { Config(n, w, 0, MaxForeign, 0) : n \in PageHists, w \in {0, 1} }

InitPage ==
    /\ cfg \in {c \in PageConfigs : c.win <= c.hist}
    /\ state = messagesInitialState
    /\ aiResponseCount = 0
    /\ store = [k \in 1..cfg.hist |-> HistoryDoc(k)]
    /\ inbox = <<>>
    /\ snap = FALSE
    /\ load = "pending"
    /\ more = <<>>
    /\ sends = [i \in SendIds |-> IdleSend]
    /\ nextId = cfg.hist + 1
    /\ foreign = 0
    /\ toasts = {}
    /\ InitEffect
    /\ h = NoHarness

NextPage ==
    \/ FirstSnapshot
    \/ DeliverChange
    \/ ForeignAdd
    \/ InitialLoadSucceeds
    \/ InitialLoadFails
    \/ LoadMore
    \/ LoadMoreSucceeds
    \/ LoadMoreFails

PageSpec == InitPage /\ [][NextPage]_vars

\* The same session with texts that pass the moderation gate and texts that
\* do not, up to the reply.
NextModeration ==
    \/ DeliverChange
    \/ \E i \in SendIds, t \in Texts : SendMessage(i, t)
    \/ \E i \in SendIds : AppendSucceeds(i)
    \/ \E i \in SendIds : AppendFails(i)
    \/ \E i \in SendIds : ResponderReturns(i, "ok")
    \/ \E i \in SendIds : ReplySucceeds(i)

ModerationSpec == InitSend /\ [][NextModeration]_vars

FairSendSpec ==
    /\ SendSpec
    /\ \A i \in SendIds :
        /\ WF_vars(AppendSucceeds(i) \/ AppendFails(i))
        /\ WF_vars(\E o \in {"ok", "error", "notext"} : ResponderReturns(i, o))
        /\ WF_vars(ReplySucceeds(i) \/ ReplyFails(i))

\* The sends of SendSpec with the effect that keeps messagesRef: what the
\* responder is given for history.
NextHistory ==
    \/ NextSend
    \/ CommitEffect

HistorySpec == InitSend /\ [][NextHistory]_vars

\* SendSpec in which, besides, the listener is called with every change that
\* is waiting for it.
FairEchoSpec == FairSendSpec /\ WF_vars(DeliverChange)

\* =============================================================== claims
Entries(id) == {k \in 1..Len(state.messages) : state.messages[k].id = id}

InFlight == {"appending", "responding", "replying"}

Resolved == {"failed", "done"}

\* C1: in every reachable state of the hook no two entries of messages have
\* the same id.
C1_NoDuplicateIds ==
    \A j, k \in 1..Len(state.messages) :
        j # k => state.messages[j].id # state.messages[k].id

\* C2: whatever StoreAddedPushed events have been processed, however often
\* and in whatever order, the list holds exactly one message with the id of
\* each document pushed.
C2_DedupOfPushed == \A k \in h.added : Cardinality(Entries(k)) = 1

C2_Witness ==
    \E k \in h.twice :
        /\ HDoc(k).nonce \in h.issued
        /\ Cardinality(Entries(k)) = 1
        /\ Len(state.messages) > 1

\* C3: in every Ledger state, pushing a document twice gives the state that
\* pushing it once gives.
C3_PushIdempotent ==
    \A k \in HDocIds :
        LET once == messagesReducer(state, Act("REALTIME_ADDED", HDoc(k)))
        IN  messagesReducer(once, Act("REALTIME_ADDED", HDoc(k))) = once

C3_Witness ==
    \E k \in h.twice : HDoc(k).nonce = 0 /\ Entries(k) # {} /\ h.issued # {}

\* C4: a StoreAddedPushed whose nonce is the id of the entry at index i
\* leaves the list as long as it was, with the pushed message at index i,
\* every other index as before and no entry with the nonce as its id.
C4_SubstitutionInPlace ==
    [][\A k \in HDocIds :
          (HRealtimeAdded(k) /\ HDoc(k).nonce # 0 /\ Entries(HDoc(k).nonce) # {}) =>
              LET i == CHOOSE i \in Entries(HDoc(k).nonce) : TRUE
              IN  /\ Len(state'.messages) = Len(state.messages)
                  /\ state'.messages[i] = HDoc(k)
                  /\ \A j \in 1..Len(state.messages) :
                        j # i => state'.messages[j] = state.messages[j]
                  /\ \A j \in 1..Len(state'.messages) :
                        state'.messages[j].id # HDoc(k).nonce]_vars

\* A confirmed message stands where its optimistic entry stood, before
\* entries that were added after the send: the send was never rolled back, so
\* the push found the optimistic entry.
C4_Witness ==
    \E k \in h.added :
        /\ HDoc(k).nonce \in h.issued \ h.failed
        /\ \E i \in Entries(k) : i < Len(state.messages)

\* C5: whether the optimistic insert of a send is applied before or after
\* the push of its stored document, the list then holds exactly one entry for
\* the send, the confirmed one.
C5_OneEntryEitherOrder ==
    \A k \in h.added :
        (HDoc(k).nonce \in h.issued \ h.failed) =>
            /\ Cardinality(Entries(k) \cup Entries(HDoc(k).nonce)) = 1
            /\ Entries(k) # {}

\* C6: an optimistic insert followed at once by the rollback of the same
\* nonce leaves messages as it was before the insert.
C6_RollbackRestores == h.pre.rolled => state.messages = h.pre.messages

C6_Witness == h.pre.rolled /\ Len(state.messages) > 0

\* C7: once the append of a send has failed and its rollback has run, the
\* list holds no entry of that send, under its nonce or under a store id, and
\* the counter counts exactly the sends still in flight.
C7_NothingLeftOfFailedSend ==
    /\ \A i \in SendIds :
          sends[i].pc = "failed" =>
              \A k \in 1..Len(state.messages) :
                  /\ state.messages[k].id # sends[i].nonce
                  /\ state.messages[k].nonce # sends[i].nonce
    /\ aiResponseCount = Cardinality({i \in SendIds : sends[i].pc \in InFlight})

\* C8: while a send is unresolved the typing flag is true, whatever became of
\* the other sends.
C8_ComposingWhileUnresolved ==
    (\E i \in SendIds : sends[i].pc \in InFlight) => state.isTyping

C8_Witness ==
    /\ \E i \in SendIds : sends[i].pc \in Resolved
    /\ \E i \in SendIds : sends[i].pc \in InFlight
    /\ state.isTyping

\* C9: once every issued send has resolved the counter is 0 and the typing
\* flag false, and, every call returning in the end, a typing flag that is
\* true becomes false again.
C9_ComposingNeverStuck ==
    /\ []((\A i \in SendIds : sends[i].pc \notin InFlight) =>
            (aiResponseCount = 0 /\ ~state.isTyping))
    /\ (state.isTyping ~> ~state.isTyping)

C9_Witness ==
    /\ \A i \in SendIds : sends[i].pc \in Resolved
    /\ \E i \in SendIds : sends[i].pc = "failed"
    /\ "The AI failed to respond. Please try again." \in toasts
    /\ ~state.isTyping
    /\ aiResponseCount = 0

\* C10: when the responder request fails no message is appended to the
\* store and an error is shown.
C10_FailedReplyAppendsNothing ==
    [][\A i \in SendIds :
          ResponderReturns(i, "error") =>
              /\ store' = store
              /\ "The AI failed to respond. Please try again." \in toasts']_vars

\* An enrichment value that is set: not absent, null, [] or "".
IsSet(v) == v \notin {"undef", "null", "empty", ""}

OneField(partial) ==
    Cardinality({f \in {"sentiment", "entities", "translation"} : partial[f] # "undef"}) = 1

\* C11: in every Ledger state, a StoreModifiedPushed that carries one
\* enrichment field, for a listed message, leaves the other two enrichment
\* fields, the text, the id and the position of that message as they were,
\* and every other message as it was.
C11_EnrichmentAdditive ==
    \A k \in EDocIds, partial \in EPartials :
        (OneField(partial) /\ Entries(k) # {}) =>
            LET after == messagesReducer(state,
                            Act("REALTIME_MODIFIED", ModifiedDoc(k, partial))).messages
            IN  /\ Len(after) = Len(state.messages)
                /\ \A j \in 1..Len(state.messages) :
                      IF state.messages[j].id = k
                      THEN /\ after[j].id = k
                           /\ after[j].text = state.messages[j].text
                           /\ \A f \in {"sentiment", "entities", "translation"} :
                                 partial[f] = "undef" => after[j][f] = state.messages[j][f]
                      ELSE after[j] = state.messages[j]

C11_Witness ==
    \E j \in 1..Len(state.messages) :
        /\ j < Len(state.messages)
        /\ state.messages[j].sentiment = "S"
        /\ state.messages[j].entities = "E"
        /\ state.messages[j].translation = "T"

\* C12: an enrichment field of a listed message that is set stays set in
\* every later state: no event makes it null or absent again.
C12_EnrichmentMonotonic ==
    [][\A j \in 1..Len(state.messages), f \in {"sentiment", "entities", "translation"} :
          IsSet(state.messages[j][f]) =>
              \E i \in 1..Len(state'.messages) :
                  /\ state'.messages[i].id = state.messages[j].id
                  /\ IsSet(state'.messages[i][f])]_vars

\* C13: in every Ledger state, a StoreModifiedPushed for a document that
\* no entry has the id of, whether or not the optimistic entry of its send is
\* listed, changes nothing in the Ledger.
C13_ModifiedOfUnlistedIgnored ==
    \A k \in EDocIds, partial \in EPartials :
        Entries(k) = {} =>
            messagesReducer(state, Act("REALTIME_MODIFIED", ModifiedDoc(k, partial))) = state

C13_Witness ==
    /\ h.pre.missed # 0
    /\ HDoc(h.pre.missed).nonce # 0
    /\ Entries(HDoc(h.pre.missed).nonce) # {}
    /\ Entries(h.pre.missed) = {}

\* The timestamps of a stretch of the list grow from each entry to the next.
Ascending(msgs, from, to) ==
    \A j \in from..(to - 1) : msgs[j].timestamp < msgs[j + 1].timestamp

\* C14: a successful older-page fetch that returns k documents puts them,
\* oldest first, before the n messages of the list, which stay in their
\* order; the cursor is the oldest document of the page, hasMore is false
\* exactly when k < 20, and isLoadingMore is false. The page holds the
\* newest documents older than the cursor, 20 of them if there are as many.
C14_OlderPagePrepended ==
    [][LoadMoreSucceeds =>
          LET n == Len(state.messages)
              k == Len(state'.messages) - n
          IN  /\ k >= 0
              /\ \A j \in 1..n : state'.messages[k + j] = state.messages[j]
              /\ Ascending(state'.messages, 1, k)
              /\ \E r \in 1..Len(more) :
                    LET older == {d \in Ids(store) : d < more[r]}
                    IN  /\ k = IF Cardinality(older) < PageSize
                               THEN Cardinality(older) ELSE PageSize
                        /\ \A j \in 1..k :
                              /\ state'.messages[j].id \in older
                              /\ Cardinality({d \in older : d > state'.messages[j].id}) = k - j
              /\ k > 0 => state'.lastDoc = state'.messages[1].id
              /\ (state'.hasMore = FALSE) <=> (k < PageSize)
              /\ state'.isLoadingMore = FALSE]_vars

C14_Witness ==
    /\ Len(state.messages) > 2 * PageSize
    /\ Len(more) = 0
    /\ ~state.hasMore
    /\ ~state.isLoadingMore
    /\ state.lastDoc = 1
    /\ Ascending(state.messages, 1, 2 * PageSize)

\* C15: loadMore issues a query only when hasMore is true and isLoadingMore
\* false, and at most one older-page fetch is in flight at any time.
C15_OneFetchAtATime ==
    /\ [][Len(more') > Len(more) => (state.hasMore /\ ~state.isLoadingMore)]_vars
    /\ [](Len(more) <= 1)
    /\ [](Len(more) = 1 => state.isLoadingMore)

C15_Witness ==
    /\ Len(more) = 1
    /\ state.hasMore
    /\ state.isLoadingMore
    /\ Len(state.messages) >= PageSize

\* C16: a failed older-page fetch leaves messages, the cursor and hasMore as
\* they were and isLoadingMore false, so that loadMore can be asked again.
C16_FailedFetchRetryable ==
    [][LoadMoreFails =>
          /\ state'.messages = state.messages
          /\ state'.lastDoc = state.lastDoc
          /\ state'.hasMore = state.hasMore
          /\ state'.isLoadingMore = FALSE
          /\ CanLoadMore(state') = state'.hasMore]_vars

\* C17: a successful initial load that returns k documents makes messages
\* those documents, oldest first: the k newest the query sees, 20 at most;
\* the cursor is the oldest of them, hasMore is (k = 20) and isLoading false.
C17_InitialLoadReplaces ==
    [][InitialLoadSucceeds =>
          LET k == Len(state'.messages)
          IN  /\ Ascending(state'.messages, 1, k)
              /\ \E p \in cfg.hist..(nextId - 1) :
                    LET seen == {d \in Ids(store) : d <= p}
                    IN  /\ k = IF Cardinality(seen) < PageSize
                               THEN Cardinality(seen) ELSE PageSize
                        /\ \A j \in 1..k :
                              /\ state'.messages[j] = DocOf(store, state'.messages[j].id)
                              /\ state'.messages[j].id \in seen
                              /\ Cardinality({d \in seen : d > state'.messages[j].id}) = k - j
              /\ k > 0 => state'.lastDoc = state'.messages[1].id
              /\ state'.hasMore = (k = PageSize)
              /\ state'.isLoading = FALSE]_vars

C17_Witness ==
    /\ load = "done"
    /\ Len(more) = 0
    /\ Len(store) > PageSize
    /\ Len(state.messages) = PageSize
    /\ state.hasMore
    /\ ~state.isLoading
    /\ state.lastDoc = state.messages[1].id
    /\ state.lastDoc > 1

\* C18: a failed initial load changes nothing in messages, which are empty
\* unless the listener has filled them, clears isLoading and shows an error;
\* the cursor and hasMore stay as they were.
C18_FailedInitialLoad ==
    /\ [][InitialLoadFails =>
             /\ state'.messages = state.messages
             /\ state'.lastDoc = state.lastDoc
             /\ state'.hasMore = state.hasMore
             /\ state'.isLoading = FALSE
             /\ "Could not load chat history." \in toasts']_vars
    /\ []((load = "failed" /\ ~snap) => (state.messages = <<>> /\ ~state.isLoading))

\* After the failure the listener's documents are listed as usual.
C18_Witness ==
    /\ load = "failed"
    /\ "Could not load chat history." \in toasts
    /\ ~state.isLoading
    /\ snap
    /\ inbox = <<>>
    /\ foreign > 0
    /\ \E j \in 1..Len(state.messages) : state.messages[j].id > cfg.hist

\* C19: in every reachable state the timestamps of the list never go down
\* from one entry to the next.
C19_OrderedByTimestamp ==
    \A j \in 1..(Len(state.messages) - 1) :
        state.messages[j].timestamp <= state.messages[j + 1].timestamp

\* C20: moderateContent is true of a text exactly when a banned word is a
\* substring of it, letter case included: of the texts sent, of "say
\* badword1" and not of "Badword1". A send it blocks changes nothing in the
\* list, the counter, the typing flag, the store or the calls in flight; no
\* message with a blocked text is ever listed or stored.
C20_BlockedSendStopsAtGate ==
    /\ []({t \in Texts : moderateContent(t)} = {TextBad})
    /\ [][\A i \in SendIds :
             /\ SendMessage(i, TextBad) =>
                   UNCHANGED <<state, aiResponseCount, store, inbox, sends, nextId>>
             /\ SendMessage(i, TextUpper) =>
                   /\ Len(state'.messages) = Len(state.messages) + 1
                   /\ aiResponseCount' = aiResponseCount + 1]_vars
    /\ [](/\ \A j \in 1..Len(state.messages) : state.messages[j].text # TextBad
          /\ \A j \in 1..Len(store) : store[j].text # TextBad)

C20_Witness ==
    /\ "Inappropriate content detected." \in toasts
    /\ \E j \in 1..Len(state.messages) : state.messages[j].text = TextUpper
    /\ \E i \in SendIds : sends[i].pc = "idle"
    /\ aiResponseCount > 0

\* C21: once the cleanup of the effect has run, no completion of an operation
\* that was in flight (the initial load, an older-page fetch, a store append
\* succeeding or failing, a responder call) changes the Ledger state.
C21_NoLateCompletionChangesLedger == [][~isMounted => state' = state]_vars


SentimentKey == <<"sentiment", TextHello>>

\* C22 (as amended): a call of the sentiment path made while the cache holds
\* the result for its text, and can be read, sends no request to the service:
\* it is served from the cache.
C22_CachedCallSendsNoRequest ==
    [][\A r \in RunIds, j \in 1..cfg.sends :
          HandleAnalyze(r, j, TRUE) /\ Truthy(apiCache[SentimentKey])
              /\ ~StartsWithTemp(state.messages[j].id)
          => /\ fetches'[SentimentKey] = fetches[SentimentKey]
             /\ runs'[r].vals["sentiment"] = apiCache[SentimentKey]]_vars

C22_Witness ==
    /\ runs[2].pc = "calls"
    /\ runs[2].vals["sentiment"] = "S"
    /\ fetches[SentimentKey] = 1

\* C22 (as stated): two calls of the sentiment path with the same text send
\* at most one request to the service, whatever became of the first call.
C22_AtMostOneRequest == fetches[SentimentKey] <= 1


\* C23: an analysis asked for an optimistic entry (its id is still the temp_
\* nonce) is rejected at once: no request is sent to the service, the store
\* is not updated and the analyzing set is left as it was.
C23_UnconfirmedIdRejected ==
    [][\A r \in RunIds, j \in 1..cfg.sends, readable \in BOOLEAN :
          HandleAnalyze(r, j, readable) /\ state.messages[j].id = state.messages[j].nonce
          => /\ fetches' = fetches
             /\ store' = store
             /\ analyzingIds' = analyzingIds
             /\ runs' = runs
             /\ apiCache' = apiCache]_vars

C23_Witness ==
    /\ "Please wait for the message to be saved before analyzing." \in toasts
    /\ \A r \in RunIds : runs[r].pc = "idle"


\* C24: whichever of the three analyses fail, the store update holds the
\* fields of those that succeeded and no field of one that failed: the stored
\* field of a failed kind is left as it was.
C24_OnlySucceededFieldsWritten ==
    [][\A r \in RunIds :
          SaveFeatures(r, TRUE)
          => LET before == DocOf(store, runs[r].id)
                 after  == DocOf(store', runs[r].id)
                 vals   == runs[r].vals
             IN  /\ after.sentiment = IF vals["sentiment"] = Failure("sentiment")
                                      THEN before.sentiment ELSE vals["sentiment"]
                 /\ after.entities = IF vals["entities"] = Failure("entities")
                                     THEN before.entities ELSE vals["entities"]
                 /\ after.translation = IF vals["translate"] = Failure("translate")
                                        THEN before.translation ELSE vals["translate"]]_vars


\* C25: when all three analyses of a call fail, the call reports failure (the
\* error toast, not the success toast), the stored enrichment of the message
\* is as it was, and nothing is sent again.
C25_AllFailedReportsFailure ==
    [][\A r \in RunIds, written \in BOOLEAN :
          SaveFeatures(r, written) /\ (\A kind \in Kinds : runs[r].vals[kind] = Failure(kind))
          => /\ toasts' = toasts \cup {"Analysis failed."}
             /\ store' = store
             /\ fetches' = fetches]_vars


Populated(v) == v \notin {"undef", "null", "empty", ""}

\* C26: a click on a confirmed user message starts an analysis exactly when
\* its id is not in the analyzing set and not all three enrichment fields
\* (sentiment, entities, translation) are populated.
C26_StartsUnlessAnalyzingOrComplete ==
    \A j \in 1..Len(state.messages) :
        LET message == state.messages[j]
        IN  message.sender = "user" /\ message.id > 0
            => (CanAnalyze(message)
                <=> /\ message.id \notin analyzingIds
                    /\ ~(/\ Populated(message.sentiment)
                         /\ Populated(message.entities)
                         /\ Populated(message.translation)))


\* C27: the cache is never needed for a correct result. A call whose cache
\* read fails goes to the service as if there were no cache, a call whose
\* cache write fails returns what the service answered, and neither shows an
\* error or ends the analysis.
C27_CacheFailureChangesNoResult ==
    [][/\ \A r \in RunIds, j \in 1..cfg.sends :
             HandleAnalyze(r, j, FALSE) /\ state.messages[j].id > 0
             => /\ \A kind \in Kinds : runs'[r].vals[kind] = "pending"
                /\ runs'[r].pc = "calls"
                /\ toasts' = toasts
       /\ \A r \in RunIds, kind \in Kinds, ok \in BOOLEAN :
             CallReturns(r, kind, ok, FALSE)
             => /\ runs'[r].vals[kind] = IF ok THEN Success(kind) ELSE Failure(kind)
                /\ runs'[r].pc = "calls"
                /\ apiCache' = apiCache
                /\ toasts' = toasts]_vars

C27_Witness ==
    \E r \in RunIds :
        /\ runs[r].pc = "calls"
        /\ runs[r].vals["sentiment"] = "S"
        /\ apiCache[SentimentKey] = "absent"


\* C28: a send that passes the gate appends the optimistic entry, whose id is
\* the nonce, as the last entry and leaves the earlier entries as they were;
\* with it the counter goes up by one and isTyping becomes true. All of this
\* happens before the store append is issued and before a confirmation for
\* the nonce can be processed: until then no document, change or entry
\* carries the nonce.
C28_OptimisticEntryBeforeAppend ==
    [][\A i \in SendIds :
          SendMessage(i, TextHello)
          => LET nonce == generateId(i)
                 n     == Len(state.messages)
             IN  /\ Len(state'.messages) = n + 1
                 /\ state'.messages[n + 1].id = nonce
                 /\ state'.messages[n + 1].nonce = nonce
                 /\ SubSeq(state'.messages, 1, n) = state.messages
                 /\ aiResponseCount' = aiResponseCount + 1
                 /\ state'.isTyping
                 /\ \A k \in 1..Len(store) : store[k].nonce # nonce
                 /\ \A k \in 1..Len(inbox) : inbox[k].doc.nonce # nonce
                 /\ \A k \in 1..n : state.messages[k].nonce # nonce]_vars

C28_Witness ==
    \E i \in SendIds :
        /\ sends[i].pc = "appending"
        /\ Len(state.messages) >= 2
        /\ state.messages[Len(state.messages)].id = sends[i].nonce
        /\ state.isTyping
        /\ \E k \in 1..Len(inbox) : inbox[k].doc.nonce = sends[i].nonce


\* C29: a message id is in the analyzing set exactly while a manual analysis
\* of it is in flight: it is taken out when the analysis ends, in success or
\* in failure, and when no analysis is in flight the set is empty.
C29_AnalyzingExactlyWhileInFlight ==
    analyzingIds = { runs[r].id : r \in {q \in RunIds : runs[q].pc = "calls"} }

C29_Witness ==
    /\ runs[1].pc = "done"
    /\ runs[2].pc = "calls"
    /\ runs[2].id \in analyzingIds
    /\ "Analysis failed." \in toasts


\* C30: no message is lost. An entry the listener pushed (its id is a document
\* id), or an optimistic entry whose send has not failed, is in the list after
\* every later step, the completion of the initial load included: under its id,
\* or for an optimistic entry under the document that carries its nonce. Only
\* the failure of its own send removes an entry.
C30_NoMessageLost ==
    [][\A j \in 1..Len(state.messages) :
          LET m == state.messages[j]
              ownSendFails == \E i \in SendIds : /\ sends[i].nonce = m.id
                                                /\ sends[i].pc = "appending"
                                                /\ sends'[i].pc = "failed"
          IN  \/ ownSendFails
              \/ \E k \in 1..Len(state'.messages) :
                    \/ state'.messages[k].id = m.id
                    \/ m.id < 0 /\ state'.messages[k].nonce = m.id]_vars


\* C31: in every reachable state the counter of requests in flight is not
\* negative and is the number of issued sends that have not resolved (by the
\* failure of the append or by the end of the responder request), and the
\* typing flag is true exactly when the counter is above 0.
C31_CounterCountsUnresolvedSends ==
    /\ aiResponseCount >= 0
    /\ aiResponseCount = Cardinality({i \in SendIds : sends[i].pc \in InFlight})
    /\ state.isTyping <=> aiResponseCount > 0

C31_Witness ==
    /\ aiResponseCount = 1
    /\ state.isTyping
    /\ \E i \in SendIds : sends[i].pc = "done"
    /\ \E i \in SendIds : sends[i].pc = "replying"


Echoed(i) == \A k \in 1..Len(inbox) : inbox[k].doc.id # sends[i].docRef

\* C32: every optimistic entry is resolved in the end. An entry whose id is
\* a nonce leaves the list; when the append has succeeded and the echo has
\* been delivered the confirmed message stands in its place, when the append
\* has failed the entry is gone; and once every send has resolved and every
\* echo is delivered no entry has a client-made nonce for id.
C32_OptimisticEventuallyResolved ==
    /\ \A i \in SendIds :
          (Entries(generateId(i)) # {}) ~> (Entries(generateId(i)) = {})
    /\ [](\A i \in SendIds :
            /\ sends[i].pc \in {"responding", "replying", "done"} /\ Echoed(i)
               => Entries(sends[i].nonce) = {} /\ Entries(sends[i].docRef) # {}
            /\ sends[i].pc = "failed" => Entries(sends[i].nonce) = {})
    /\ []((inbox = <<>> /\ \A i \in SendIds : sends[i].pc \notin InFlight)
            => \A k \in 1..Len(state.messages) : state.messages[k].id > 0)

C32_Witness ==
    /\ inbox = <<>>
    /\ \E i \in SendIds : sends[i].pc = "failed" /\ Entries(sends[i].nonce) = {}
    /\ \E i \in SendIds : sends[i].pc = "done" /\ Entries(sends[i].docRef) # {}


Copies(history, nonce) ==
    Cardinality({k \in 1..Len(history) : history[k].nonce = nonce})

\* C33: a responder request is issued only for a send whose store append has
\* succeeded (not for a failed or a blocked send), and the history it is
\* given holds the message just sent exactly once, whatever happened to the
\* list between the optimistic insert and the call.
C33_HistoryHoldsSentMessageOnce ==
    [][\A i \in SendIds :
          /\ (sends[i].pc # "responding" /\ sends'[i].pc = "responding")
                => sends[i].pc = "appending" /\ sends[i].docRef \in Ids(store)
          /\ AppendSucceeds(i) => Copies(CurrentHistory(i), sends[i].nonce) = 1]_vars

====
